---- MODULE Spec2Model ----
(***************************************************************************)
(* svn_cmd_tool: SvnCheckoutManager holding SvnCheckoutControl ("Tracked") *)
(* and SvnExportControl ("Snapshot") objects, over a small filesystem and  *)
(* an svn client whose commands succeed or fail nondeterministically.      *)
(***************************************************************************)
EXTENDS Integers, Sequences, FiniteSets, TLC

\* ---------------------------------------------------------------- bounds
MaxControls == 3
MaxRules == 3

\* ------------------------------------------------------------ filesystem
\* A path is the sequence of its components; Root is "/".
Root == <<>>
DirA == <<"a">>
DirB == <<"a", "b">>
Target == <<"a", "b", "t">>
SvnDir == <<"a", "b", "t", ".svn">>
FileF == <<"a", "b", "t", "f">>
DirD == <<"a", "b", "t", "d">>
FileG == <<"a", "b", "t", "d", "g">>

Nodes == {DirA, DirB, Target, SvnDir, FileF, DirD, FileG}

\* "none": no such entry; "dir": directory; "rw": writable regular file;
\* "ro": read-only regular file.
Kinds == {"none", "dir", "rw", "ro"}

\* pathlib.Path.parent: the root is its own parent.
Parent(p) == IF p = Root THEN Root ELSE SubSeq(p, 1, Len(p) - 1)

Kind(f, p) == IF p = Root THEN "dir" ELSE IF p \in Nodes THEN f[p] ELSE "none"

\* An entry exists only inside a directory.
Consistent(f) == \A p \in Nodes : f[p] # "none" => Kind(f, Parent(p)) = "dir"

\* q is a proper ancestor of p.
RECURSIVE IsBelow(_, _)
IsBelow(p, q) == /\ p # Root
                 /\ \/ Parent(p) = q
                    \/ IsBelow(Parent(p), q)

\* Path.exists(), Path.is_dir(), Path.is_file()
exists(f, p) == Kind(f, p) # "none"
is_dir(f, p) == Kind(f, p) = "dir"
is_file(f, p) == Kind(f, p) \in {"rw", "ro"}

\* ---------------------------------------------------------------- errors
\* An exception is its class and its message (a flat sequence of words).
NoError == [type |-> "None", msg |-> <<>>]
Exception(msg) == [type |-> "Exception", msg |-> msg]
CalledProcessError(cmd) == [type |-> "CalledProcessError", msg |-> <<"Command">> \o cmd \o <<"failed">>]
OSError(type, p) == [type |-> type, msg |-> <<type>> \o p]
TypeError(msg) == [type |-> "TypeError", msg |-> msg]

\* str(e): the message without the exception class.
str(e) == e.msg

\* ----------------------------------------------------- observable events
\* One entry per client command run and per filesystem mutation attempted.
Call(op, url, p, ok) == [op |-> op, url |-> url, path |-> p, ok |-> ok]
Done(f) == [fs |-> f, err |-> NoError, calls |-> <<>>]

\* ------------------------------------------------------- pathlib mkdir()
\* errno of resolving the directory part of p
RECURSIVE LookupError(_, _)
LookupError(f, p) ==
    IF Parent(p) = Root THEN "ok"
    ELSE LET e == LookupError(f, Parent(p)) IN
         IF e # "ok" THEN e
         ELSE IF Kind(f, Parent(p)) = "none" THEN "FileNotFoundError"
         ELSE IF Kind(f, Parent(p)) # "dir" THEN "NotADirectoryError"
         ELSE "ok"

\* Path.mkdir(exist_ok=True): parents=True forgotten.
mkdir_without_parents(f, p) ==
    LET e == LookupError(f, p) IN
    IF e # "ok" THEN [fs |-> f, err |-> OSError(e, p), calls |-> <<>>]
    ELSE IF Kind(f, p) = "none"
    THEN [fs |-> [f EXCEPT ![p] = "dir"], err |-> NoError, calls |-> <<Call("mkdir", <<>>, p, TRUE)>>]
    ELSE IF is_dir(f, p) THEN [fs |-> f, err |-> NoError, calls |-> <<>>]
    ELSE [fs |-> f, err |-> OSError("FileExistsError", p), calls |-> <<>>]

\* Path.mkdir(parents=True, exist_ok=True)
RECURSIVE mkdir(_, _)
mkdir(f, p) ==
    LET e == LookupError(f, p) IN
    IF e = "FileNotFoundError"
    THEN LET up == mkdir(f, Parent(p)) IN
         IF up.err # NoError THEN up
         ELSE [fs |-> [up.fs EXCEPT ![p] = "dir"], err |-> NoError,
               calls |-> Append(up.calls, Call("mkdir", <<>>, p, TRUE))]
    ELSE IF e # "ok" THEN [fs |-> f, err |-> OSError(e, p), calls |-> <<>>]
    ELSE IF Kind(f, p) = "none"
    THEN [fs |-> [f EXCEPT ![p] = "dir"], err |-> NoError, calls |-> <<Call("mkdir", <<>>, p, TRUE)>>]
    ELSE IF is_dir(f, p) THEN [fs |-> f, err |-> NoError, calls |-> <<>>]
    ELSE [fs |-> f, err |-> OSError("FileExistsError", p), calls |-> <<>>]

\* ------------------------------------------------------------ svn client
\* What the outside world decides during one reconcile: whether the svn
\* command succeeds, and which files refuse a permission change (no
\* permission change is attempted after a failed command).
Envs == [svn : {TRUE}, chmod_fail : SUBSET {FileF, FileG}]
        \cup [svn : {FALSE}, chmod_fail : {{}}]

\* The repository location is a directory holding f and d/g. A command
\* can succeed only where svn can write: checkout into a missing target
\* inside a directory, export into a missing target or, forced, over a
\* directory. A failed command leaves the filesystem as it found it.
Content(f) == [f EXCEPT ![Target] = "dir", ![FileF] = "rw", ![DirD] = "dir", ![FileG] = "rw"]

svn_checkout(f, repository_url, target_path, env) ==
    LET cmd == <<"svn", "checkout">> \o repository_url \o target_path
        ok == env.svn /\ is_dir(f, Parent(target_path)) /\ ~exists(f, target_path)
    IN [fs |-> IF ok THEN [Content(f) EXCEPT ![Append(target_path, ".svn")] = "dir"] ELSE f,
        err |-> IF ok THEN NoError ELSE CalledProcessError(cmd),
        calls |-> <<Call("checkout", repository_url, target_path, ok)>>]

svn_export(f, repository_url, target_path, force, env) ==
    LET cmd == <<"svn", "export">> \o repository_url \o target_path
                  \o (IF force THEN <<"--force">> ELSE <<>>)
        ok == /\ env.svn
              /\ is_dir(f, Parent(target_path))
              /\ \/ ~exists(f, target_path)
                 \/ force /\ is_dir(f, target_path)
    IN [fs |-> IF ok THEN Content(f) ELSE f,
        err |-> IF ok THEN NoError ELSE CalledProcessError(cmd),
        calls |-> <<Call("export", repository_url, target_path, ok)>>]

svn_update(f, working_copy_path, env) ==
    LET cmd == <<"svn", "update">> \o working_copy_path
    IN [fs |-> f,
        err |-> IF env.svn THEN NoError ELSE CalledProcessError(cmd),
        calls |-> <<Call("update", <<>>, working_copy_path, env.svn)>>]

\* The .svn entry only has to exist.
is_svn_working_copy_any_entry(f, path) == exists(f, Append(path, ".svn"))

\* The .svn entry is looked for as a regular file.
is_svn_working_copy_is_file(f, path) ==
    LET svn_dir == Append(path, ".svn")
    IN exists(f, svn_dir) /\ is_file(f, svn_dir)

is_svn_working_copy(f, path) ==
    LET svn_dir == Append(path, ".svn")
    IN exists(f, svn_dir) /\ is_dir(f, svn_dir)

\* Path.rglob('*'): every entry below path, parents before children.
WalkOrder == <<DirA, DirB, Target, SvnDir, DirD, FileG, FileF>>
\* Path.glob('*'): the walk does not descend.
glob(f, path) == SelectSeq(WalkOrder, LAMBDA p : p # Root /\ Parent(p) = path /\ exists(f, p))

rglob(f, path) == SelectSeq(WalkOrder, LAMBDA p : IsBelow(p, path) /\ exists(f, p))

\* A loop that the first failing chmod ends.
RECURSIVE chmod_each_until_failure(_, _, _)
chmod_each_until_failure(f, entries, env) ==
    IF entries = <<>> THEN Done(f)
    ELSE LET file_path == Head(entries)
             ok == file_path \notin env.chmod_fail
             f1 == IF is_file(f, file_path) /\ ok THEN [f EXCEPT ![file_path] = "ro"] ELSE f
             rest == IF is_file(f, file_path) /\ ~ok THEN Done(f)
                     ELSE chmod_each_until_failure(f1, Tail(entries), env)
         IN IF is_file(f, file_path)
            THEN [rest EXCEPT !.calls = <<Call("chmod", <<>>, file_path, ok)>> \o rest.calls]
            ELSE rest

\* The loop of set_readonly over the entries still to visit.
RECURSIVE chmod_each(_, _, _)
chmod_each(f, entries, env) ==
    IF entries = <<>> THEN Done(f)
    ELSE LET file_path == Head(entries)
             ok == file_path \notin env.chmod_fail
             f1 == IF is_file(f, file_path) /\ ok THEN [f EXCEPT ![file_path] = "ro"] ELSE f
             rest == chmod_each(f1, Tail(entries), env)
         IN IF is_file(f, file_path)
            THEN [rest EXCEPT !.calls = <<Call("chmod", <<>>, file_path, ok)>> \o rest.calls]
            ELSE rest

set_readonly(f, path, env) == chmod_each(f, rglob(f, path), env)

\* -------------------------------------------------------------- controls
\* Strings the code inspects character by character are sequences of
\* characters.
RepoUrl == <<"r">>
Names == {"n1", "n2"}
None == [type |-> "None"]

\* SvnCheckoutControl.__init__(self, name, repository_url, target_path),
\* called with the positional arguments args.
SvnCheckoutControl(args) ==
    IF Len(args) = 3
    THEN [err |-> NoError,
          obj |-> [type |-> "SvnCheckoutControl", name |-> args[1],
                   repository_url |-> args[2], target_path |-> args[3]]]
    ELSE [err |-> TypeError(<<"SvnCheckoutControl.__init__", "positional arguments">>),
          obj |-> None]

\* SvnExportControl.__init__(self, repository_url, target_path,
\* force_overwrite=False), called with the positional arguments args.
SvnExportControl(args) ==
    IF Len(args) \in {2, 3}
    THEN [err |-> NoError,
          obj |-> [type |-> "SvnExportControl", repository_url |-> args[1],
                   target_path |-> args[2],
                   force_overwrite |-> IF Len(args) = 3 THEN args[3] ELSE FALSE]]
    ELSE [err |-> TypeError(<<"SvnExportControl.__init__", "positional arguments">>),
          obj |-> None]

\* hasattr(control, attr)
hasattr(control, attr) == attr \in DOMAIN control

\* An update() that checks out whatever it finds at the target.
SvnCheckoutControl_update_checkout_always(self, f, env) ==
    LET parent_dir == Parent(self.target_path)
        made == IF parent_dir # self.target_path /\ ~exists(f, parent_dir)
                THEN mkdir(f, parent_dir)
                ELSE Done(f)
    IN IF made.err # NoError THEN made
       ELSE LET co == svn_checkout(made.fs, self.repository_url, self.target_path, env)
            IN [co EXCEPT !.calls = made.calls \o co.calls]

\* SvnCheckoutControl.update
SvnCheckoutControl_update(self, f, env) ==
    LET target_path == self.target_path IN
    IF exists(f, target_path)
    THEN IF is_svn_working_copy(f, self.target_path)
         THEN svn_update(f, self.target_path, env)
         ELSE [fs |-> f, calls |-> <<>>,
               err |-> Exception(<<"not an SVN working copy">> \o self.target_path)]
    ELSE LET parent_dir == Parent(target_path)
             made == IF parent_dir # target_path /\ ~exists(f, parent_dir)
                     THEN mkdir(f, parent_dir)
                     ELSE Done(f)
         IN IF made.err # NoError THEN made
            ELSE LET co == svn_checkout(made.fs, self.repository_url, self.target_path, env)
                 IN [co EXCEPT !.calls = made.calls \o co.calls]

\* The force_overwrite flag read the wrong way round.
skips_when_forced(self, f) == exists(f, self.target_path) /\ self.force_overwrite

\* SvnExportControl.update, lines 42-47: an existing target is skipped
\* unless force_overwrite is set.
skips(self, f) == exists(f, self.target_path) /\ ~self.force_overwrite

\* SvnExportControl.update
SvnExportControl_update(self, f, env) ==
    LET target_path == self.target_path IN
    IF skips(self, f)
    THEN Done(f)
    ELSE LET parent_dir == Parent(target_path)
             made == IF ~exists(f, target_path) /\ parent_dir # target_path
                        /\ ~exists(f, parent_dir)
                     THEN mkdir(f, parent_dir)
                     ELSE Done(f)
         IN IF made.err # NoError THEN made
            ELSE LET ex == svn_export(made.fs, self.repository_url, self.target_path,
                                      self.force_overwrite, env)
                 IN IF ex.err # NoError
                    THEN [ex EXCEPT !.calls = made.calls \o ex.calls]
                    ELSE LET ro == set_readonly(ex.fs, self.target_path, env)
                         IN [ro EXCEPT !.calls = made.calls \o ex.calls \o ro.calls]

\* control.update(), dispatched on the object's class
control_update(control, f, env) ==
    IF control.type = "SvnCheckoutControl"
    THEN SvnCheckoutControl_update(control, f, env)
    ELSE SvnExportControl_update(control, f, env)

\* --------------------------------------------------------------- manager
VARIABLES
    controls,   \* SvnCheckoutManager.controls
    fs,         \* the filesystem: kind of every node
    frame,      \* the running manager method and its locals
    calls,      \* client commands and mutations of the latest control.update() or build
    last,       \* the latest control.update(): its control, the target before it, its error
    attempted,  \* the running/latest batch or load: position and error of every
                \* control.update() or rule build it has made
    result,     \* how the latest finished manager method ended
    before      \* the controls as the running/latest manager method found them

vars == <<controls, fs, frame, calls, last, attempted, result, before>>

Idle == [pc |-> "idle", i |-> 0, n |-> 0, errors |-> <<>>, successful_count |-> 0]

\* The target and its ancestors as a reconcile found them.
PreNodes == {DirA, DirB, Target, SvnDir}
Pre(f) == [p \in PreNodes |-> f[p]]
NoLast == [ctl |-> None, pre |-> [p \in PreNodes |-> "none"], err |-> NoError]

Returned(op) == [op |-> op, raised |-> FALSE, exc |-> NoError]
Raised(op, exc) == [op |-> op, raised |-> TRUE, exc |-> exc]

\* Objects a caller can construct and hand to appendControl.
DirectControls ==
    {SvnCheckoutControl(<<nm, RepoUrl, Target>>).obj : nm \in Names}
    \cup {SvnExportControl(<<RepoUrl, Target, fo>>).obj : fo \in BOOLEAN}
    \cup {SvnExportControl(<<RepoUrl, Target>>).obj}

\* The filesystems the program may start on. Read-only files come only from
\* the program's own permission changes; a target directory starts empty,
\* with f, or with f and d/g, and a target whose .svn is a regular file
\* starts with nothing else in it.
InitFs ==
    {f \in [Nodes -> Kinds] :
        /\ Consistent(f)
        /\ \A p \in Nodes : f[p] # "ro"
        /\ f[FileF] # "dir" /\ f[DirD] # "rw" /\ f[FileG] # "dir"
        /\ f[DirD] = "dir" => f[FileF] = "rw" /\ f[FileG] = "rw"
        /\ f[SvnDir] = "rw" => f[FileF] = "none"}

Init ==
    /\ controls = <<>>
    /\ fs \in InitFs
    /\ frame = Idle
    /\ calls = <<>>
    /\ last = NoLast
    /\ attempted = <<>>
    /\ result = Returned("__init__")
    /\ before = <<>>

\* SvnCheckoutManager.appendControl
appendControl(control) ==
    /\ frame.pc = "idle"
    /\ Len(controls) < MaxControls
    /\ controls' = Append(controls, control)
    /\ result' = Returned("appendControl")
    /\ before' = controls
    /\ calls' = <<>>
    /\ last' = NoLast
    /\ attempted' = <<>>
    /\ UNCHANGED <<fs, frame>>

\* SvnCheckoutManager.clear
clear ==
    /\ frame.pc = "idle"
    /\ controls' = <<>>
    /\ result' = Returned("clear")
    /\ before' = controls
    /\ calls' = <<>>
    /\ last' = NoLast
    /\ attempted' = <<>>
    /\ UNCHANGED <<fs, frame>>

\* An update() that treats an empty manager as an error.
update_begin_raises_on_empty ==
    /\ frame.pc = "idle"
    /\ before' = controls
    /\ calls' = <<>>
    /\ last' = NoLast
    /\ attempted' = <<>>
    /\ IF controls = <<>>
       THEN /\ result' = Raised("update", Exception(<<"no controls">>))
            /\ UNCHANGED frame
       ELSE /\ frame' = [Idle EXCEPT !.pc = "update", !.i = 1]
            /\ result' = [op |-> "update", raised |-> FALSE, exc |-> None]
    /\ UNCHANGED <<controls, fs>>

\* SvnCheckoutManager.update, lines 168-175: the early return on an empty
\* manager, else the loop's locals are set up.
update_begin ==
    /\ frame.pc = "idle"
    /\ before' = controls
    /\ calls' = <<>>
    /\ last' = NoLast
    /\ attempted' = <<>>
    /\ IF controls = <<>>
       THEN /\ result' = Returned("update")
            /\ UNCHANGED frame
       ELSE /\ frame' = [Idle EXCEPT !.pc = "update", !.i = 1]
            /\ result' = [op |-> "update", raised |-> FALSE, exc |-> None]
    /\ UNCHANGED <<controls, fs>>

\* A loop that gives up at the first failing control.
next_i_stop_on_failure(i, r) == IF r.err # NoError THEN Len(controls) + 1 ELSE i + 1

\* The loop index after the body has run on control i with outcome r.
next_i(i, r) == i + 1

\* SvnCheckoutManager.update, lines 177-187: one iteration of the loop.
update_iter(env) ==
    /\ frame.pc = "update"
    /\ frame.i <= Len(controls)
    /\ LET control == controls[frame.i]
           r == control_update(control, fs, env)
       IN /\ fs' = r.fs
          /\ calls' = r.calls
          /\ last' = [ctl |-> control, pre |-> Pre(fs), err |-> r.err]
          /\ attempted' = Append(attempted, [i |-> frame.i, err |-> r.err])
          /\ frame' = IF r.err = NoError
                       THEN [frame EXCEPT !.i = next_i(frame.i, r),
                                          !.successful_count = @ + 1]
                       ELSE [frame EXCEPT !.i = next_i(frame.i, r),
                                          !.errors = Append(@, <<control, r.err>>)]
    /\ UNCHANGED <<controls, result, before>>

\* The latest failure reported in place of the first.
update_error_last(errors, successful_count) ==
    [type |-> "Exception", successful |-> successful_count,
     failed |-> Len(errors), first |-> str(errors[Len(errors)][2])]

\* The two counts reported in each other's place.
update_error_swapped(errors, successful_count) ==
    [type |-> "Exception", successful |-> Len(errors),
     failed |-> successful_count, first |-> str(errors[1][2])]

\* The exception update() raises from its errors list: the values its
\* message is formatted from.
update_error(errors, successful_count) ==
    LET first_error == errors[1][2]
    IN [type |-> "Exception", successful |-> successful_count,
        failed |-> Len(errors), first |-> str(first_error)]

\* A batch that forgets its controls once it is over.
update_end_clears ==
    /\ frame.pc = "update"
    /\ frame.i > Len(controls)
    /\ result' = IF frame.errors # <<>>
                 THEN Raised("update", update_error(frame.errors, frame.successful_count))
                 ELSE Returned("update")
    /\ frame' = Idle
    /\ controls' = <<>>
    /\ UNCHANGED <<fs, calls, last, attempted, before>>

\* SvnCheckoutManager.update, lines 189-202: after the loop.
update_end ==
    /\ frame.pc = "update"
    /\ frame.i > Len(controls)
    /\ result' = IF frame.errors # <<>>
                 THEN Raised("update", update_error(frame.errors, frame.successful_count))
                 ELSE Returned("update")
    /\ frame' = Idle
    /\ UNCHANGED <<controls, fs, calls, last, attempted, before>>

\* ---------------------------------------------------------- rule records
\* A rule record. For the keys read with config.get(), "" or <<>> stands
\* for a missing or empty value (both are falsy); parent_url = <<>> stands
\* for a missing key; force_overwrite = FALSE stands for a missing key or
\* False (config.get('force_overwrite', False) reads both as False).
ParentUrls == {<<"p">>, <<"p", "/">>}
Rules ==
    {c \in [isdict : BOOLEAN,
            type : {"", "checkout", "export", "other"},
            name : {""} \cup Names,
            target_path : {<<>>, Target},
            repository_url : {<<>>, RepoUrl},
            parent_url : {<<>>} \cup ParentUrls,
            force_overwrite : BOOLEAN] :
        ~c.isdict => /\ c.type = "" /\ c.name = "" /\ c.target_path = <<>>
                     /\ c.repository_url = <<>> /\ c.parent_url = <<>>
                     /\ ~c.force_overwrite}

\* The rules a loaded configuration is made of: the keys only an 'export'
\* rule reads (parent_url, force_overwrite) are given to 'export' rules only.
LoadRules ==
    {c \in Rules : c.type # "export" => c.parent_url = <<>> /\ ~c.force_overwrite}

\* Output lines of "svn list", or the command's failure.
ListOutputs ==
    {[ok |-> FALSE, lines |-> <<>>],
     [ok |-> TRUE, lines |-> <<>>],
     [ok |-> TRUE, lines |-> << <<"a", "/">>, <<"b", "/">>, <<"c", "/">>, <<>> >>],
     [ok |-> TRUE, lines |-> << <<"c", "/">>, <<" ">>, <<"a", "/", " ">> >>],
     [ok |-> TRUE, lines |-> << <<"c">> >>]}

\* str.strip(), str.rstrip('/'), str.endswith('/') on character sequences
RECURSIVE rstrip(_, _)
rstrip(str_, ch) ==
    IF str_ # <<>> /\ str_[Len(str_)] = ch
    THEN rstrip(SubSeq(str_, 1, Len(str_) - 1), ch)
    ELSE str_

RECURSIVE lstrip(_, _)
lstrip(str_, ch) ==
    IF str_ # <<>> /\ Head(str_) = ch THEN lstrip(Tail(str_), ch) ELSE str_

strip(str_) == lstrip(rstrip(str_, " "), " ")
endswith(str_, ch) == str_ # <<>> /\ str_[Len(str_)] = ch

\* svn_cmd.svn_list, given what the command printed
RECURSIVE strip_lines(_)
strip_lines(lines) ==
    IF lines = <<>> THEN <<>>
    ELSE (IF strip(Head(lines)) # <<>> THEN <<strip(Head(lines))>> ELSE <<>>)
         \o strip_lines(Tail(lines))

svn_list(repository_url, out) ==
    [err |-> IF out.ok THEN NoError
             ELSE CalledProcessError(<<"svn", "list">> \o repository_url),
     items |-> IF out.ok THEN strip_lines(out.lines) ELSE <<>>,
     calls |-> <<Call("list", repository_url, <<>>, out.ok)>>]

\* The tail of _create_control_from_config: append what the constructor
\* made, or propagate what it raised.
construct_and_append(ctrls, made, done) ==
    IF made.err # NoError
    THEN [controls |-> ctrls, err |-> made.err, calls |-> done]
    ELSE [controls |-> Append(ctrls, made.obj), err |-> NoError, calls |-> done]

\* The required keys checked with 'name' before 'type'.
missing_key_name_first(config) ==
    IF config.name = "" THEN "name"
    ELSE IF config.type = "" THEN "type"
    ELSE IF config.target_path = <<>> THEN "target_path"
    ELSE ""

\* SvnCheckoutManager._create_control_from_config, lines 106-116: the first
\* of the keys required of every rule that is missing or empty, "" if none is.
missing_key(config) ==
    IF config.type = "" THEN "type"
    ELSE IF config.name = "" THEN "name"
    ELSE IF config.target_path = <<>> THEN "target_path"
    ELSE ""

\* SvnCheckoutManager._create_control_from_config
create_control_from_config(ctrls, config, out) ==
    LET fail(msg) == [controls |-> ctrls, err |-> Exception(msg), calls |-> <<>>]
        control_type == config.type
        name == config.name
        target_path == config.target_path
        repository_url == config.repository_url
        force_overwrite == config.force_overwrite
    IN
    IF ~config.isdict THEN fail(<<"config must be a dict">>)
    ELSE IF missing_key(config) # "" THEN fail(<<"key required", missing_key(config)>>)
    ELSE IF control_type = "checkout"
    THEN IF repository_url = <<>>
         THEN fail(<<"checkout needs 'repository_url'">>)
         ELSE construct_and_append(
                  ctrls, SvnCheckoutControl(<<name, repository_url, target_path>>), <<>>)
    ELSE IF control_type = "export"
    THEN IF repository_url # <<>>
         THEN construct_and_append(
                  ctrls,
                  SvnExportControl(<<name, repository_url, target_path, force_overwrite>>),
                  <<>>)
         ELSE IF config.parent_url # <<>>
         THEN LET parent_url == config.parent_url
                  listed == svn_list(parent_url, out)
                  directories == listed.items
              IN IF listed.err # NoError
                 THEN [controls |-> ctrls, err |-> listed.err, calls |-> listed.calls]
                 ELSE IF directories # <<>>
                 THEN LET last_directory == rstrip(directories[Len(directories)], "/")
                          export_url == IF endswith(parent_url, "/")
                                        THEN parent_url \o last_directory
                                        ELSE parent_url \o <<"/">> \o last_directory
                      IN construct_and_append(
                             ctrls,
                             SvnExportControl(
                                 <<name, export_url, target_path, force_overwrite>>),
                             listed.calls)
                 ELSE [controls |-> ctrls, calls |-> listed.calls,
                       err |-> Exception(<<"no child directory under">> \o parent_url)]
         ELSE fail(<<"export needs 'repository_url' or 'parent_url'">>)
    ELSE fail(<<"unsupported type", control_type>>)

\* Whether building config runs "svn list".
lists(config) ==
    /\ config.isdict /\ config.type = "export" /\ config.name # ""
    /\ config.target_path # <<>> /\ config.repository_url = <<>>
    /\ config.parent_url # <<>>

\* What "svn list" prints matters only to a rule that runs it.
NoOutput == [ok |-> FALSE, lines |-> <<>>]
OutputsFor(config) == IF lists(config) THEN ListOutputs ELSE {NoOutput}

\* SvnCheckoutManager.load_from_dict, lines 77-84: the checks of the
\* 'controls' key; shape tells what the configuration holds there, n is
\* the number of rules of the list.
load_begin(shape, n) ==
    /\ frame.pc = "idle"
    /\ Len(controls) + n <= MaxControls
    /\ before' = controls
    /\ calls' = <<>>
    /\ last' = NoLast
    /\ attempted' = <<>>
    /\ IF shape = "no controls key"
       THEN /\ result' = Raised("load_from_dict", Exception(<<"'controls' key required">>))
            /\ UNCHANGED frame
       ELSE IF shape = "not a list"
       THEN /\ result' = Raised("load_from_dict", Exception(<<"'controls' must be a list">>))
            /\ UNCHANGED frame
       ELSE /\ frame' = [Idle EXCEPT !.pc = "load", !.i = 0, !.n = n]
            /\ result' = [op |-> "load_from_dict", raised |-> FALSE, exc |-> None]
    /\ UNCHANGED <<controls, fs>>

\* The 0-based index reported as it is.
position_zero_based(i) == i

\* SvnCheckoutManager.load_from_dict, lines 90-91: the position reported
\* for the rule at 0-based index i.
position(i) == i + 1

\* A load that takes back the controls it appended when a rule fails.
load_iter_all_or_nothing(control_config, out) ==
    /\ frame.pc = "load"
    /\ frame.i < frame.n
    /\ LET r == create_control_from_config(controls, control_config, out) IN
       /\ controls' = IF r.err # NoError THEN before ELSE r.controls
       /\ calls' = r.calls
       /\ attempted' = Append(attempted,
                              [i |-> Len(attempted) + 1, err |-> r.err,
                               name |-> IF r.err = NoError THEN control_config.name ELSE ""])
       /\ IF r.err # NoError
          THEN /\ result' = Raised("load_from_dict",
                                   [type |-> "Exception", position |-> position(frame.i),
                                    cause |-> str(r.err)])
               /\ frame' = Idle
          ELSE /\ frame' = [frame EXCEPT !.i = @ + 1]
               /\ UNCHANGED result
    /\ UNCHANGED <<fs, last, before>>

\* SvnCheckoutManager.load_from_dict, lines 86-91: the loop's body on the
\* rule at (0-based) index frame.i.
load_iter(control_config, out) ==
    /\ frame.pc = "load"
    /\ frame.i < frame.n
    /\ LET r == create_control_from_config(controls, control_config, out) IN
       /\ controls' = r.controls
       /\ calls' = r.calls
       /\ attempted' = Append(attempted,
                              [i |-> Len(attempted) + 1, err |-> r.err,
                               name |-> IF r.err = NoError THEN control_config.name ELSE ""])
       /\ IF r.err # NoError
          THEN /\ result' = Raised("load_from_dict",
                                   [type |-> "Exception", position |-> position(frame.i),
                                    cause |-> str(r.err)])
               /\ frame' = Idle
          ELSE /\ frame' = [frame EXCEPT !.i = @ + 1]
               /\ UNCHANGED result
    /\ UNCHANGED <<fs, last, before>>

\* SvnCheckoutManager.load_from_dict, line 93: the loop is over.
load_end ==
    /\ frame.pc = "load"
    /\ frame.i >= frame.n
    /\ result' = Returned("load_from_dict")
    /\ frame' = Idle
    /\ UNCHANGED <<controls, fs, calls, last, attempted, before>>

\* The position of the last control of that name, not the first.
index_by_name_last(ctrls, name, from) ==
    LET matches == {k \in from..Len(ctrls) :
                       hasattr(ctrls[k], "name") /\ ctrls[k].name = name}
    IN IF matches = {} THEN 0 ELSE CHOOSE k \in matches : \A j \in matches : j <= k

\* SvnCheckoutManager.get_control_by_name: 0 stands for no match.
RECURSIVE index_by_name(_, _, _)
index_by_name(ctrls, name, from) ==
    IF from > Len(ctrls) THEN 0
    ELSE IF hasattr(ctrls[from], "name") /\ ctrls[from].name = name THEN from
    ELSE index_by_name(ctrls, name, from + 1)

\* A lookup that falls back to the first control when no name matches.
get_control_by_name_or_first(ctrls, name) ==
    LET at == index_by_name(ctrls, name, 1)
    IN IF at # 0 THEN ctrls[at] ELSE IF ctrls # <<>> THEN ctrls[1] ELSE None

get_control_by_name(ctrls, name) ==
    LET at == index_by_name(ctrls, name, 1)
    IN IF at = 0 THEN None ELSE ctrls[at]

\* SvnCheckoutManager.update_by_name
update_by_name(name, env) ==
    /\ frame.pc = "idle"
    /\ before' = controls
    /\ attempted' = <<>>
    /\ LET control == get_control_by_name(controls, name)
           ended(exc) == [op |-> "update_by_name", name |-> name,
                          raised |-> exc # NoError, exc |-> exc]
       IN
       IF control = None
       THEN /\ result' = ended(Exception(<<"not found", name>>))
            /\ calls' = <<>>
            /\ last' = NoLast
            /\ UNCHANGED fs
       ELSE LET r == control_update(control, fs, env) IN
            /\ fs' = r.fs
            /\ calls' = r.calls
            /\ last' = [ctl |-> control, pre |-> Pre(fs), err |-> r.err]
            /\ result' = IF r.err = NoError
                         THEN ended(NoError)
                         ELSE ended(Exception(<<"failed", name>> \o str(r.err)))
    /\ UNCHANGED <<controls, frame>>

\* SvnCheckoutManager.get_control_names
RECURSIVE get_control_names(_)
get_control_names(ctrls) ==
    IF ctrls = <<>> THEN <<>>
    ELSE (IF hasattr(Head(ctrls), "name") THEN <<Head(ctrls).name>> ELSE <<>>)
         \o get_control_names(Tail(ctrls))

\* SvnCheckoutManager.has_control_name
has_control_name(ctrls, name) == get_control_by_name(ctrls, name) # None

\* SvnCheckoutManager.count
count(ctrls) == Len(ctrls)

\* A call of one of the read-only methods: get_control_by_name,
\* get_control_names, has_control_name, count. What they return is given by
\* the operators above.
query ==
    /\ frame.pc = "idle"
    /\ result' = Returned("query")
    /\ before' = controls
    /\ calls' = <<>>
    /\ last' = NoLast
    /\ attempted' = <<>>
    /\ UNCHANGED <<controls, fs, frame>>

Next ==
    \/ \E control \in DirectControls : appendControl(control)
    \/ clear
    \/ update_begin
    \/ \E env \in Envs : update_iter(env)
    \/ update_end
    \/ \E name \in Names \cup {"x"}, env \in Envs : update_by_name(name, env)
    \/ \E shape \in {"no controls key", "not a list"} : load_begin(shape, 0)
    \/ \E n \in 0..MaxRules : load_begin("list", n)
    \/ \E control_config \in LoadRules : \E out \in OutputsFor(control_config) :
          load_iter(control_config, out)
    \/ load_end
    \/ query

Spec == Init /\ [][Next]_vars

\* ------------------------------------------- building one rule on its own
\* The managers a rule is built into: empty, or holding one control.
BuildStarts == {<<>>} \cup {<<control>> : control \in DirectControls}

\* A call of _create_control_from_config(config) is about to be made.
InitBuild ==
    /\ controls \in BuildStarts
    /\ fs \in InitFs
    /\ \E config \in Rules : \E out \in OutputsFor(config) :
          frame = [pc |-> "build", config |-> config, out |-> out]
    /\ calls = <<>>
    /\ last = NoLast
    /\ attempted = <<>>
    /\ result = Returned("__init__")
    /\ before = controls

\* SvnCheckoutManager._create_control_from_config, called on frame.config
build ==
    /\ frame.pc = "build"
    /\ LET r == create_control_from_config(controls, frame.config, frame.out) IN
       /\ controls' = r.controls
       /\ calls' = r.calls
       /\ result' = IF r.err = NoError
                    THEN Returned("_create_control_from_config")
                    ELSE Raised("_create_control_from_config", r.err)
    /\ frame' = [frame EXCEPT !.pc = "built"]
    /\ before' = controls
    /\ UNCHANGED <<fs, last, attempted>>

NextBuild == build

SpecBuild == InitBuild /\ [][NextBuild]_vars

\* ================================================================ claims
\* A finished update() over a non-empty manager.
BatchDone == frame.pc = "idle" /\ result.op = "update" /\ controls # <<>>
Failures == {k \in 1..Len(attempted) : attempted[k].err # NoError}
Successes == {k \in 1..Len(attempted) : attempted[k].err = NoError}
FirstFailure == CHOOSE k \in Failures : \A j \in Failures : k <= j

\* C1: update() on a manager of n >= 1 controls runs control.update() on
\* every control exactly once, in insertion order, whichever of them fail,
\* and returns normally exactly when none failed.
C1_EveryControlAttemptedInOrder ==
    /\ frame.pc = "update" =>
          /\ Len(attempted) = frame.i - 1
          /\ \A k \in 1..Len(attempted) : attempted[k].i = k
    /\ BatchDone =>
          /\ Len(attempted) = Len(controls)
          /\ \A k \in 1..Len(attempted) : attempted[k].i = k
          /\ result.raised <=> Failures # {}

C1_Witness ==
    /\ BatchDone /\ Len(controls) = 3
    /\ attempted[1].err # NoError /\ attempted[2].err = NoError
    /\ attempted[3].err # NoError /\ result.raised

\* C2: the cause reported by the exception update() raises is the error of
\* the earliest-inserted control that failed.
C2_FirstFailureIsReported ==
    (BatchDone /\ result.raised) =>
        /\ Failures # {}
        /\ result.exc.first = str(attempted[FirstFailure].err)

C2_Witness ==
    /\ BatchDone /\ result.raised /\ Len(controls) = 3
    /\ Failures = {2}
    /\ result.exc.first = str(attempted[2].err)

\* C3 as stated: the exception carries the total attempted count, the
\* success count and the failure count.
C3_CarriesTotalSuccessFailure ==
    (BatchDone /\ result.raised) =>
        /\ {"total", "successful", "failed"} \subseteq DOMAIN result.exc
        /\ result.exc.total = Len(controls)
        /\ result.exc.successful = Cardinality(Successes)
        /\ result.exc.failed = Cardinality(Failures)

\* C3 amended: the exception carries the success count and the failure
\* count (and the first error's text) but no total; the two counts are the
\* numbers of controls whose update() returned and raised, and add up to
\* the number of controls.
C3_CarriesSuccessAndFailure ==
    (BatchDone /\ result.raised) =>
        /\ DOMAIN result.exc = {"type", "successful", "failed", "first"}
        /\ result.exc.successful = Cardinality(Successes)
        /\ result.exc.failed = Cardinality(Failures)
        /\ result.exc.successful + result.exc.failed = Len(controls)

C3_Witness ==
    /\ BatchDone /\ result.raised /\ Len(controls) = 3
    /\ result.exc.successful = 2 /\ result.exc.failed = 1

\* The latest control.update() was a Tracked / a Snapshot control's.
IsTracked == last.ctl.type = "SvnCheckoutControl"
IsSnapshot == last.ctl.type = "SvnExportControl"
CallsOf(op) == {k \in 1..Len(calls) : calls[k].op = op}
Ancestors == {DirA, DirB}
FilesUnderTarget == {p \in Nodes : IsBelow(p, Target) /\ fs[p] \in {"rw", "ro"}}

\* A rule record with every field its type needs, and the control the
\* claim expects from it.
WellFormed(c) ==
    /\ c.isdict /\ c.type \in {"checkout", "export"}
    /\ c.name # "" /\ c.target_path # <<>> /\ c.repository_url # <<>>
ExpectedControl(c) ==
    IF c.type = "checkout"
    THEN [type |-> "SvnCheckoutControl", name |-> c.name,
          repository_url |-> c.repository_url, target_path |-> c.target_path]
    ELSE [type |-> "SvnExportControl", name |-> c.name,
          repository_url |-> c.repository_url, target_path |-> c.target_path,
          force_overwrite |-> c.force_overwrite]

\* C4: building a well-formed rule record ('checkout' or 'export' with
\* repository_url) appends exactly one control at the end of the sequence,
\* carrying the rule's name, repository location, target path and, for
\* export, its force_overwrite.
C4_WellFormedRuleAppendsControl ==
    [][\A c \in Rules :
          (WellFormed(c) /\ load_iter(c, NoOutput))
              => controls' = Append(controls, ExpectedControl(c))]_vars

\* C5: a Tracked control whose target exists and is no working copy fails
\* with the not-a-working-copy error, runs neither checkout nor update and
\* creates no directory.
C5_NotWorkingCopyFailsUntouched ==
    (IsTracked /\ last.pre[Target] # "none" /\ last.pre[SvnDir] # "dir") =>
        /\ last.err = Exception(<<"not an SVN working copy">> \o last.ctl.target_path)
        /\ calls = <<>>
        /\ Pre(fs) = last.pre

C5_Witness ==
    /\ IsTracked /\ last.pre[Target] = "dir" /\ last.pre[SvnDir] = "rw"
    /\ last.err # NoError /\ calls = <<>>

\* Every ancestor of the target that was missing has been created before
\* call number k.
MissingParentsCreatedBefore(k) ==
    \A a \in Ancestors :
        last.pre[a] = "none" =>
            \E j \in 1..(k - 1) : calls[j].op = "mkdir" /\ calls[j].path = a

OneCheckoutAfterParents ==
    /\ Cardinality(CallsOf("checkout")) = 1
    /\ calls[Len(calls)].op = "checkout"
    /\ calls[Len(calls)].url = last.ctl.repository_url
    /\ calls[Len(calls)].path = last.ctl.target_path
    /\ MissingParentsCreatedBefore(Len(calls))

\* C6 as stated: a Tracked control whose target does not exist runs
\* checkout(repository location, target) exactly once, never update, and has
\* created every missing parent directory before the checkout.
C6_MissingTargetIsCheckedOut ==
    (IsTracked /\ last.pre[Target] = "none") =>
        /\ CallsOf("update") = {}
        /\ OneCheckoutAfterParents

\* The parent directory is missing and an ancestor is a regular file.
ParentsCannotBeCreated == last.pre[DirB] = "none" /\ last.pre[DirA] \notin {"none", "dir"}

\* C6 amended: a Tracked control whose target does not exist never runs
\* update; when creating the missing parent directories fails it fails
\* with that error and runs no checkout; otherwise it runs
\* checkout(repository location, target) exactly once, after every missing
\* parent directory has been created.
C6_MissingTargetIsCheckedOutIfParentsCanBeMade ==
    (IsTracked /\ last.pre[Target] = "none") =>
        /\ CallsOf("update") = {}
        /\ IF ParentsCannotBeCreated
           THEN /\ calls = <<>>
                /\ last.err.type = "NotADirectoryError"
                /\ Pre(fs) = last.pre
           ELSE OneCheckoutAfterParents

C6_Witness ==
    /\ IsTracked /\ last.pre[Target] = "none"
    /\ last.pre[DirA] = "none" /\ last.pre[DirB] = "none"
    /\ Len(calls) = 3 /\ calls[3].op = "checkout" /\ calls[3].ok
    /\ fs[SvnDir] = "dir"

\* C7: a Tracked control whose target exists and is a working copy runs
\* update(target) exactly once, never checkout, and creates no directory.
C7_WorkingCopyIsUpdated ==
    (IsTracked /\ last.pre[Target] # "none" /\ last.pre[SvnDir] = "dir") =>
        /\ Len(calls) = 1
        /\ calls[1].op = "update"
        /\ calls[1].path = last.ctl.target_path
        /\ Pre(fs) = last.pre

C7_Witness ==
    /\ IsTracked /\ last.pre[Target] = "dir" /\ last.pre[SvnDir] = "dir"
    /\ Len(calls) = 1 /\ calls[1].op = "update" /\ last.err = NoError

\* C8 as stated: after any successful update() of a Snapshot control every
\* regular file under the target is read-only.
C8_AllFilesReadOnlyAfterSuccess ==
    (IsSnapshot /\ last.err = NoError) =>
        \A p \in FilesUnderTarget : fs[p] = "ro"

\* The export was due: the target was missing or force_overwrite is set.
ExportDue == last.pre[Target] = "none" \/ last.ctl.force_overwrite

\* C8 amended: after a successful update() of a Snapshot control that ran
\* the export (target missing, or force_overwrite set), every regular file
\* under the target whose permission change did not fail is read-only; a
\* file is left writable only where its permission change failed.
C8_FilesReadOnlyUnlessChmodFailed ==
    (IsSnapshot /\ last.err = NoError /\ ExportDue) =>
        \A p \in FilesUnderTarget :
            \/ fs[p] = "ro"
            \/ \E k \in CallsOf("chmod") : calls[k].path = p /\ ~calls[k].ok

C8_Witness ==
    /\ IsSnapshot /\ last.err = NoError /\ ExportDue
    /\ fs[FileF] = "rw" /\ fs[FileG] = "ro"

\* C9: a Snapshot control with force_overwrite false whose target exists
\* runs no export, changes no permission, creates no directory and
\* succeeds.
C9_ExistingTargetIsSkipped ==
    (IsSnapshot /\ ~last.ctl.force_overwrite /\ last.pre[Target] # "none") =>
        /\ calls = <<>>
        /\ last.err = NoError
        /\ Pre(fs) = last.pre

C9_Witness ==
    /\ IsSnapshot /\ ~last.ctl.force_overwrite /\ last.pre[Target] = "dir"
    /\ fs[FileF] = "rw" /\ calls = <<>> /\ last.err = NoError

\* C10: in a Snapshot control's update(), a successful export is followed
\* by a permission change attempted on every regular file under the
\* target, a failing change neither stopping the pass nor failing
\* update(); a failed export is followed by no permission change and its
\* error propagates.
C10_ExportThenReadOnlyPass ==
    IsSnapshot =>
        /\ Cardinality(CallsOf("export")) <= 1
        /\ \A k \in CallsOf("export") :
              IF calls[k].ok
              THEN /\ last.err = NoError
                   /\ \A p \in FilesUnderTarget :
                         \E j \in CallsOf("chmod") : j > k /\ calls[j].path = p
              ELSE /\ CallsOf("chmod") = {}
                   /\ last.err.type = "CalledProcessError"

C10_Witness ==
    /\ IsSnapshot /\ last.err = NoError
    /\ \E k \in CallsOf("export") : calls[k].ok
    /\ \E i, j \in CallsOf("chmod") : i < j /\ ~calls[i].ok /\ calls[j].ok

\* A finished call of _create_control_from_config on rule frame.config.
Built == frame.pc = "built"

\* An 'export' rule that names no repository_url but a parent_url, built
\* against a listing that holds at least one entry.
ListedEntries == {k \in 1..Len(frame.out.lines) : strip(frame.out.lines[k]) # <<>>}
ExportBelowParent ==
    /\ Built
    /\ frame.config.isdict
    /\ frame.config.type = "export"
    /\ frame.config.name # ""
    /\ frame.config.target_path # <<>>
    /\ frame.config.repository_url = <<>>
    /\ frame.config.parent_url # <<>>
    /\ frame.out.ok
    /\ ListedEntries # {}

\* parent_url joined by one separator to the entry the listing ends with,
\* the entry's trailing separator stripped.
LastEntry ==
    LET k == CHOOSE k \in ListedEntries : \A j \in ListedEntries : j <= k
        entry == strip(frame.out.lines[k])
    IN IF entry[Len(entry)] = "/" THEN SubSeq(entry, 1, Len(entry) - 1) ELSE entry
JoinedUrl ==
    LET parent_url == frame.config.parent_url IN
    IF parent_url[Len(parent_url)] = "/"
    THEN parent_url \o LastEntry
    ELSE parent_url \o <<"/">> \o LastEntry

\* C11: building an 'export' rule with a parent_url and no repository_url
\* against a non-empty listing appends a Snapshot control whose
\* repository location is parent_url joined by exactly one separator to
\* the positionally last listed entry, its trailing separator stripped.
C11_ExportsLastListedChild ==
    ExportBelowParent =>
        /\ ~result.raised
        /\ Len(controls) = Len(before) + 1
        /\ controls[Len(controls)].type = "SvnExportControl"
        /\ controls[Len(controls)].repository_url = JoinedUrl
        /\ controls[Len(controls)].target_path = frame.config.target_path

\* The positions of the held controls that carry a name, and of those
\* carrying a given name.
Named == {k \in 1..Len(controls) : "name" \in DOMAIN controls[k]}
Holders(name) == {k \in Named : controls[k].name = name}
FirstHolder(name) == CHOOSE k \in Holders(name) : \A j \in Holders(name) : k <= j

\* C12: names() lists the controls' names in insertion order, a name once
\* for every control carrying it, and each lookup by name (get by name,
\* contains, reconcileByName) of a name carried by one or several controls
\* resolves to the first-inserted of them.
C12_NamesInOrderLookupsFirst ==
    /\ LET names == get_control_names(controls) IN
       /\ Len(names) = Cardinality(Named)
       /\ \A k \in Named :
             names[Cardinality({j \in Named : j <= k})] = controls[k].name
    /\ \A name \in Names :
          Holders(name) # {} =>
             /\ index_by_name(controls, name, 1) = FirstHolder(name)
             /\ get_control_by_name(controls, name) = controls[FirstHolder(name)]
             /\ has_control_name(controls, name)
    /\ (result.op = "update_by_name" /\ Holders(result.name) # {}) =>
          last.ctl = controls[FirstHolder(result.name)]

\* A name carried by two controls, behind a control of another name, has
\* been reconciled by name.
C12_Witness ==
    /\ Len(controls) = 3
    /\ Holders("n2") = {1}
    /\ Holders("n1") = {2, 3}
    /\ get_control_names(controls) = <<"n2", "n1", "n1">>
    /\ result.op = "update_by_name"
    /\ result.name = "n1"

\* C13: reconcileByName(name) when no control carries that name fails with
\* the not-found error and has no side effect: no control is reconciled,
\* no client operation runs, the sequence is unchanged.
C13_UnknownNameFailsWithoutEffect ==
    (result.op = "update_by_name" /\ Holders(result.name) = {}) =>
        /\ result.raised
        /\ result.exc = Exception(<<"not found", result.name>>)
        /\ last = NoLast
        /\ calls = <<>>
        /\ attempted = <<>>
        /\ controls = before

\* A manager holding a control has been asked to reconcile a name it does
\* not hold.
C13_Witness ==
    /\ result.op = "update_by_name"
    /\ result.name = "n2"
    /\ Holders("n2") = {}
    /\ Holders("n1") # {}
    /\ Len(controls) > Cardinality(Named)

\* C14: reconcileAll on an empty manager returns successfully: no error is
\* raised, no control is reconciled, no client operation runs and the
\* sequence stays empty.
C14_EmptyBatchReturns ==
    (result.op = "update" /\ before = <<>>) =>
        /\ frame = Idle
        /\ ~result.raised
        /\ result.exc = NoError
        /\ attempted = <<>>
        /\ last = NoLast
        /\ calls = <<>>
        /\ controls = <<>>

\* update() has returned on an empty manager.
C14_Witness == result = Returned("update") /\ before = <<>> /\ controls = <<>>

\* The keys required of every rule, in the order the claim gives them, and
\* the positions of those the rule frame.config lacks.
RequiredKeys == <<"type", "name", "target_path">>
MissingKeys ==
    {k \in 1..Len(RequiredKeys) :
        CASE RequiredKeys[k] = "type" -> frame.config.type = ""
          [] RequiredKeys[k] = "name" -> frame.config.name = ""
          [] RequiredKeys[k] = "target_path" -> frame.config.target_path = <<>>}
FirstMissingKey == RequiredKeys[CHOOSE k \in MissingKeys : \A j \in MissingKeys : k <= j]

\* C15: a rule record lacking any of type, name, target_path fails to build
\* with the configuration error naming the first of them that is missing,
\* in that order, whatever its type and its type-specific fields are; no
\* control is appended and no list call is made.
C15_FirstMissingKeyIsReported ==
    (Built /\ frame.config.isdict /\ MissingKeys # {}) =>
        /\ result.raised
        /\ result.exc = Exception(<<"key required", FirstMissingKey>>)
        /\ controls = before
        /\ calls = <<>>

\* An 'export' rule that would list its parent_url, and a rule of an
\* unsupported type, each built without name and target_path into a
\* manager that holds a control.
C15_Witness ==
    /\ Built
    /\ frame.config.type \in {"export", "other"}
    /\ frame.config.name = ""
    /\ frame.config.target_path = <<>>
    /\ frame.config.repository_url = <<>>
    /\ frame.config.parent_url # <<>>
    /\ result.raised
    /\ result.exc.msg = <<"key required", "name">>
    /\ controls # <<>>

\* A load that failed while building a rule, as opposed to one that
\* rejected the configuration's shape.
LoadFailed == frame.pc = "idle" /\ result.op = "load_from_dict" /\ result.raised
BuildFailed == LoadFailed /\ "position" \in DOMAIN result.exc
ShapeRejected == LoadFailed /\ "position" \notin DOMAIN result.exc

\* A configuration without a 'controls' key, or whose 'controls' is not a
\* list, is rejected on the spot.
RejectsBadShape ==
    \A shape \in {"no controls key", "not a list"} :
        load_begin(shape, 0) =>
            /\ result'.op = "load_from_dict"
            /\ result'.raised
            /\ result'.exc.type = "Exception"
            /\ "position" \notin DOMAIN result'.exc
            /\ frame' = Idle
            /\ attempted' = <<>>
            /\ calls' = <<>>
            /\ controls' = controls
            /\ fs' = fs

\* The rules are built one after another until one fails; the failure is
\* reported with the 1-based position of its rule and the build's message.
BuildFailureCarriesPosition ==
    /\ frame.pc = "load" => \A k \in 1..Len(attempted) : attempted[k].err = NoError
    /\ ShapeRejected => attempted = <<>> /\ calls = <<>> /\ controls = before
    /\ BuildFailed =>
          LET k == Len(attempted) IN
          /\ k >= 1
          /\ \A j \in 1..(k - 1) : attempted[j].err = NoError
          /\ attempted[k].err # NoError
          /\ result.exc.type = "Exception"
          /\ result.exc.position = k
          /\ result.exc.cause = str(attempted[k].err)

\* C16: loading a configuration whose 'controls' key is absent or not a
\* sequence fails with a configuration error before any control is built
\* (sequence unchanged, no client operation), and a failure building the
\* k-th rule is raised wrapped with the 1-based position k.
C16_BadShapeRejectedBuildFailurePositioned ==
    [][RejectsBadShape]_vars /\ []BuildFailureCarriesPosition

\* The second rule of a load into a manager holding a control has failed.
C16_Witness ==
    BuildFailed /\ result.exc.position = 2 /\ Len(attempted) = 2 /\ before # <<>>

\* C17: in every manager state, with any mix of Tracked and Snapshot
\* controls, names() has one entry per held control, so that its length
\* equals count(), and contains(c.name) is true for every held control c.
C17_EveryControlListedByName ==
    /\ Len(get_control_names(controls)) = count(controls)
    /\ \A k \in 1..Len(controls) :
          /\ hasattr(controls[k], "name")
          /\ has_control_name(controls, controls[k].name)

\* The target is a working copy.
WorkingCopy == fs[Target] # "none" /\ fs[SvnDir] = "dir"

\* A Tracked control that returned leaves a working copy, and one that
\* found a working copy ran update on it and nothing else.
TrackedSyncsThenUpdates ==
    /\ (IsTracked /\ last.err = NoError) => WorkingCopy
    /\ (IsTracked /\ last.pre[Target] # "none" /\ last.pre[SvnDir] = "dir") =>
          /\ calls # <<>>
          /\ \A k \in 1..Len(calls) : calls[k].op = "update"
          /\ CallsOf("checkout") = {}

\* No step of the program undoes a working copy, and a step in which a
\* checkout succeeds starts without one and ends with one.
CheckoutSucceeds ==
    /\ calls' # calls
    /\ \E k \in 1..Len(calls') : calls'[k].op = "checkout" /\ calls'[k].ok
WorkingCopyIsKept ==
    /\ WorkingCopy => WorkingCopy'
    /\ CheckoutSucceeds => ~WorkingCopy /\ WorkingCopy'

\* C18: once one reconcile() of a Tracked control has returned
\* successfully its target is a working copy, and every later reconcile()
\* of that control runs update only and never checkout, so that over any
\* sequence of reconciles checkout succeeds at most once.
C18_TrackedReconcileIsIdempotent ==
    []TrackedSyncsThenUpdates /\ [][WorkingCopyIsKept]_vars

\* In one batch a second Tracked control of the same target has been
\* reconciled after the first returned successfully, and so has found the
\* working copy.
C18_Witness ==
    /\ frame.pc = "update"
    /\ Len(attempted) = 2
    /\ attempted[1].err = NoError /\ attempted[2].err = NoError
    /\ controls[1].type = "SvnCheckoutControl"
    /\ controls[2].type = "SvnCheckoutControl"
    /\ controls[1].target_path = controls[2].target_path
    /\ IsTracked
    /\ calls = <<Call("update", <<>>, Target, TRUE)>>

\* The methods that may change the sequence, and the two ways it changes:
\* one control more at its end, or none left.
Mutators == {"appendControl", "clear", "load_from_dict"}
ChangedByMutatorOnly ==
    controls' # controls =>
        /\ result'.op \in Mutators
        /\ \/ controls' = <<>> /\ result'.op = "clear"
           \/ /\ Len(controls') = Len(controls) + 1
              /\ SubSeq(controls', 1, Len(controls)) = controls
              /\ result'.op # "clear"
ReadersKeepSequence ==
    result.op \in {"update", "update_by_name", "query"} => controls = before

\* C19: the control sequence is changed only by append, also when made
\* while loading, and by clear; reconcileAll, reconcileByName and the
\* read-only methods leave it as it was, whether they succeed or fail.
C19_OnlyAppendAndClearChangeSequence ==
    [][ChangedByMutatorOnly]_vars /\ []ReadersKeepSequence

\* A batch over a manager holding two or more controls has failed.
C19_Witness ==
    /\ frame.pc = "idle"
    /\ Len(controls) >= 2
    /\ controls = before
    /\ result.op = "update"
    /\ result.raised
    /\ Len(attempted) = Len(controls)

\* C20: loading is not all-or-nothing. When building the k-th rule fails,
\* the controls built from rules 1..k-1 have been appended and stay, in
\* rule order, behind the controls held before, no rule after the k-th is
\* built or appended, and count() has grown by exactly k-1.
C20_FailedLoadKeepsEarlierRules ==
    BuildFailed =>
        LET k == result.exc.position
            held == count(before)
        IN /\ Len(attempted) = k
           /\ count(controls) = held + k - 1
           /\ SubSeq(controls, 1, held) = before
           /\ \A j \in 1..(k - 1) :
                 /\ attempted[j].err = NoError
                 /\ controls[held + j].name = attempted[j].name

\* The third rule of a load has failed after two rules of different names
\* were built.
C20_Witness ==
    /\ BuildFailed
    /\ result.exc.position = 3
    /\ Len(controls) = Len(before) + 2
    /\ controls[Len(before) + 1].name = "n2"
    /\ controls[Len(before) + 2].name = "n1"

====
